---- MODULE Spec2Model ----
(***************************************************************************)
(* Model of the hydraulic calculation engine, class PumpSizer of           *)
(* pump_sizer.py: construction, the flow-quantity primitives               *)
(* (_calculate_velocity, _calculate_reynolds, _calculate_friction_factor)  *)
(* and the three operations calculate_tdh, calculate_power and             *)
(* calculate_npsha, which build the instance's results record.             *)
(*                                                                         *)
(* Python floats are modelled as decimal floating-point numbers with a     *)
(* four-digit significand, rounded to nearest (ties to even) after every   *)
(* operation, with the double's range (overflow above 1e308, flush to zero *)
(* below 1e-324), the special values inf, -inf and nan, and Python's       *)
(* exceptions (ZeroDivisionError, OverflowError, ValueError), which a      *)
(* value carries as its kind and every later operation propagates.         *)
(***************************************************************************)
EXTENDS Integers, Sequences, FiniteSets, TLC

(***************************************************************************)
(* Floating-point values: [k, m, e].  k = "fin": the number m * 10^e with  *)
(* m = 0 (and e = 0) or 1000 <= |m| <= 9999.  k = "inf": m is the sign.    *)
(* k = "nan".  Any other k names the exception the computation raised.     *)
(***************************************************************************)
Exceptions == {"ZeroDivisionError", "OverflowError", "ValueError", "TypeError"}

Fin(m, e) == [k |-> "fin", m |-> m, e |-> e]

Zero == Fin(0, 0)

Inf == [k |-> "inf", m |-> 1, e |-> 0]

NegInf == [k |-> "inf", m |-> -1, e |-> 0]

NaN == [k |-> "nan", m |-> 0, e |-> 0]

Raise(x) == [k |-> x, m |-> 0, e |-> 0]

IsRaise(x) == x.k \in Exceptions

IsFin(x) == x.k = "fin"

IsZero(x) == x.k = "fin" /\ x.m = 0

\* The element of a singleton.  { f(v) : v \in {expr} } evaluates expr once and
\* binds v to its value: the operators below use it for their operands, as
\* Python evaluates an operand once before it applies the operator.
The(S) == CHOOSE x \in S : TRUE

Abs(n) == IF n < 0 THEN -n ELSE n

Sign(n) == IF n < 0 THEN -1 ELSE IF n > 0 THEN 1 ELSE 0

NumDigits(a) ==
    IF a < 10 THEN 1 ELSE IF a < 100 THEN 2 ELSE IF a < 1000 THEN 3
    ELSE IF a < 10000 THEN 4 ELSE IF a < 100000 THEN 5
    ELSE IF a < 1000000 THEN 6 ELSE IF a < 10000000 THEN 7
    ELSE IF a < 100000000 THEN 8 ELSE IF a < 1000000000 THEN 9 ELSE 10

\* A normalised significand and exponent, within the double's range: beyond
\* 1e308 the value is an infinity, below 1e-324 it is zero.
Pack(m, e) ==
    IF e + 3 > 308 THEN (IF m > 0 THEN Inf ELSE NegInf)
    ELSE IF e + 3 < -324 THEN Zero
    ELSE Fin(m, e)

\* Rounding of the exact value m * 10^e to four significant digits, to
\* nearest, ties to even.
Round(sgn, a, sh, e) ==
    IF sh <= 0 THEN Pack(sgn * a * 10^(-sh), e + sh)
    ELSE LET p  == 10^sh
             q  == a \div p
             r  == a % p
             up == r > p \div 2 \/ (r = p \div 2 /\ q % 2 = 1)
             q2 == IF up THEN q + 1 ELSE q
         IN IF q2 = 10000 THEN Pack(sgn * 1000, e + sh + 1)
            ELSE Pack(sgn * q2, e + sh)

Norm(m, e) ==
    The({IF mv = 0 THEN Zero
         ELSE The({Round(Sign(mv), Abs(mv), sh, ev) : sh \in {NumDigits(Abs(mv)) - 4}})
         : mv \in {m}, ev \in {e}})

\* A decimal literal of the source: D(981, -2) is 9.81.
D(m, e) == Norm(m, e)

\* A Python int used in float arithmetic.
FromInt(n) == Norm(n, 0)

Neg(x0) ==
    The({
        IF x.k \in {"fin", "inf"} THEN [x EXCEPT !.m = -x.m] ELSE x
        : x \in {x0}})

\* x < y on finite values.
FinLess(x, y) ==
    IF x.m = 0 THEN y.m > 0
    ELSE IF y.m = 0 THEN x.m < 0
    ELSE IF (x.m > 0) # (y.m > 0) THEN x.m < 0
    ELSE IF x.m > 0 THEN x.e < y.e \/ (x.e = y.e /\ x.m < y.m)
    ELSE x.e > y.e \/ (x.e = y.e /\ x.m < y.m)

\* Python's x < y on floats: False whenever an operand is nan.
Lt(x0, y0) ==
    The({
        IF x.k = "nan" \/ y.k = "nan" THEN FALSE
        ELSE IF x.k = "inf" THEN x.m < 0 /\ ~(y.k = "inf" /\ y.m < 0)
        ELSE IF y.k = "inf" THEN y.m > 0
        ELSE FinLess(x, y)
        : x \in {x0}, y \in {y0}})

\* Python's x == y on floats: False whenever an operand is nan.
Eq(x0, y0) ==
    The({x.k # "nan" /\ y.k # "nan" /\ x = y : x \in {x0}, y \in {y0}})

Le(x0, y0) ==
    The({Lt(x, y) \/ Eq(x, y) : x \in {x0}, y \in {y0}})

Gt(x, y) == Lt(y, x)

Ge(x, y) == Le(y, x)

\* x + y.
Add(x0, y0) ==
    The({
        IF IsRaise(x) THEN x ELSE IF IsRaise(y) THEN y
        ELSE IF x.k = "nan" \/ y.k = "nan" THEN NaN
        ELSE IF x.k = "inf" THEN (IF y.k = "inf" /\ y.m # x.m THEN NaN ELSE x)
        ELSE IF y.k = "inf" THEN y
        ELSE IF x.m = 0 THEN y
        ELSE IF y.m = 0 THEN x
        ELSE LET hi == IF x.e >= y.e THEN x ELSE y
                 lo == IF x.e >= y.e THEN y ELSE x
                 d  == hi.e - lo.e
             IN IF d > 4 THEN hi ELSE Norm(hi.m * 10^d + lo.m, lo.e)
        : x \in {x0}, y \in {y0}})

Sub(x, y) == Add(x, Neg(y))

\* x * y: an overflowing product is an infinity, not an exception.
Mul(x0, y0) ==
    The({
        IF IsRaise(x) THEN x ELSE IF IsRaise(y) THEN y
        ELSE IF x.k = "nan" \/ y.k = "nan" THEN NaN
        ELSE IF x.k = "inf" \/ y.k = "inf"
             THEN IF IsZero(x) \/ IsZero(y) THEN NaN
                  ELSE IF Sign(x.m) * Sign(y.m) > 0 THEN Inf ELSE NegInf
        ELSE Norm(x.m * y.m, x.e + y.e)
        : x \in {x0}, y \in {y0}})

\* x / y: Python raises ZeroDivisionError for a zero divisor, whatever x is.
Div(x0, y0) ==
    The({
        IF IsRaise(x) THEN x ELSE IF IsRaise(y) THEN y
        ELSE IF IsZero(y) THEN Raise("ZeroDivisionError")
        ELSE IF x.k = "nan" \/ y.k = "nan" THEN NaN
        ELSE IF x.k = "inf"
             THEN IF y.k = "inf" THEN NaN
                  ELSE IF Sign(x.m) * Sign(y.m) > 0 THEN Inf ELSE NegInf
        ELSE IF y.k = "inf" THEN Zero
        ELSE IF x.m = 0 THEN Zero
        ELSE LET n  == Abs(x.m) * 100000
                 b  == Abs(y.m)
                 q  == n \div b
                 st == IF n % b = 0 THEN 0 ELSE 1
             IN Norm(Sign(x.m) * Sign(y.m) * (q * 10 + st), x.e - y.e - 6)
        : x \in {x0}, y \in {y0}})

\* x ** 2: unlike the product, float.__pow__ raises OverflowError when a
\* finite operand overflows.
Sq(x0) ==
    The({
        IF IsFin(x) /\ Mul(x, x).k = "inf" THEN Raise("OverflowError")
        ELSE Mul(x, x)
        : x \in {x0}})

\* math.log10 by linear interpolation of the table of log10(1..10); exact at
\* the powers of ten (log10(1) = 0).  Not positive: ValueError.
Log10Table == <<0, 3010, 4771, 6021, 6990, 7782, 8451, 9031, 9542, 10000>>

Log10(x0) ==
    The({
        IF IsRaise(x) THEN x
        ELSE IF x.k = "nan" THEN NaN
        ELSE IF x.k = "inf" THEN (IF x.m > 0 THEN Inf ELSE Raise("ValueError"))
        ELSE IF x.m <= 0 THEN Raise("ValueError")
        ELSE LET i  == x.m \div 1000
                 fr == x.m % 1000
                 l  == Log10Table[i] * 1000 + (Log10Table[i + 1] - Log10Table[i]) * fr
             IN Add(FromInt(x.e + 3), Norm(l, -7))
        : x \in {x0}})

\* 10 ** y by linear interpolation of the table of 10^(0.0, 0.1 .. 1.0).
Exp10Table == <<1000, 1259, 1585, 1995, 2512, 3162, 3981, 5012, 6310, 7943, 10000>>

Exp10(y0) ==
    The({
        IF IsRaise(y) THEN y
        ELSE IF y.k = "nan" THEN NaN
        ELSE IF y.k = "inf" THEN (IF y.m > 0 THEN Inf ELSE Zero)
        ELSE IF y.e >= 0 /\ y.m # 0
             THEN (IF y.m > 0 THEN Raise("OverflowError") ELSE Zero)
        ELSE LET y4  == IF y.e >= -4 THEN y.m * 10^(y.e + 4)
                        ELSE IF y.e < -12 THEN (IF y.m < 0 THEN -1 ELSE 0)
                        ELSE y.m \div 10^(-4 - y.e)
                 n   == y4 \div 10000
                 fr  == y4 % 10000
                 i   == fr \div 1000 + 1
                 v   == Exp10Table[i] * 1000 + (Exp10Table[i + 1] - Exp10Table[i]) * (fr % 1000)
             IN Norm(v, n - 6)
        : y \in {y0}})

\* x ** 0.9.  A negative base gives a complex number in Python, which the
\* comparison that follows in the source cannot order: TypeError.
Pow09(x0) ==
    The({
        IF IsRaise(x) THEN x
        ELSE IF x.k = "nan" THEN NaN
        ELSE IF x.k = "inf" THEN (IF x.m > 0 THEN Inf ELSE Raise("TypeError"))
        ELSE IF x.m = 0 THEN Zero
        ELSE IF x.m < 0 THEN Raise("TypeError")
        ELSE Exp10(Mul(D(9, -1), Log10(x)))
        : x \in {x0}})


(***************************************************************************)
(* The class constants of PumpSizer.                                       *)
(***************************************************************************)
PIPE_ROUGHNESS ==
    [stainless_steel |-> D(2, -6), commercial_steel |-> D(45, -6),
     pvc |-> D(15, -7), cast_iron |-> D(26, -5), hdpe |-> D(15, -7)]

FITTINGS_K_VALUES ==
    [elbow_90_std |-> D(9, -1), elbow_90_long_radius |-> D(6, -1),
     elbow_45_std |-> D(4, -1), gate_valve_fully_open |-> D(2, -1),
     ball_valve_fully_open |-> D(1, -1), globe_valve_fully_open |-> D(10, 0),
     check_valve_swing |-> D(25, -1), tee_through_flow |-> D(6, -1),
     tee_branch_flow |-> D(18, -1), pipe_entrance_sharp |-> D(5, -1),
     pipe_exit_sharp |-> D(1, 0)]

STANDARD_MOTOR_KW ==
    <<D(37, -2), D(55, -2), D(75, -2), D(11, -1), D(15, -1), D(22, -1),
      D(3, 0), D(4, 0), D(55, -1), D(75, -1), D(11, 0), D(15, 0), D(185, -1),
      D(22, 0), D(30, 0), D(37, 0), D(45, 0), D(55, 0), D(75, 0), D(90, 0),
      D(110, 0), D(132, 0), D(160, 0), D(200, 0), D(250, 0)>>

GRAVITY == D(981, -2)

\* math.pi, to the model's precision.
PI == D(3142, -3)

(***************************************************************************)
(* The class object.  PIPE_ROUGHNESS, FITTINGS_K_VALUES and                *)
(* STANDARD_MOTOR_KW are mutable containers (two dicts and a list) bound   *)
(* in the class body and shared by every instance; the methods reach them  *)
(* through self at the time of the call.  PumpSizer holds their current    *)
(* contents; the definitions above are their contents when the class is    *)
(* created.  GRAVITY is a float and is read as the constant.               *)
(***************************************************************************)
VARIABLE PumpSizer

ClassBody ==
    [PIPE_ROUGHNESS |-> PIPE_ROUGHNESS, FITTINGS_K_VALUES |-> FITTINGS_K_VALUES,
     STANDARD_MOTOR_KW |-> STANDARD_MOTOR_KW]

\* self.PIPE_ROUGHNESS.get(pipe_material, 4.5e-05)
RoughnessGet(pipe_material) ==
    IF pipe_material \in DOMAIN PumpSizer.PIPE_ROUGHNESS
    THEN PumpSizer.PIPE_ROUGHNESS[pipe_material] ELSE D(45, -6)

(***************************************************************************)
(* PumpSizer.__init__: the fields of a new instance.                       *)
(***************************************************************************)
PumpSizerNew(flow_rate_m3_hr, fluid_density_kg_m3, fluid_viscosity_cP) ==
    [flow_rate_m3_s |-> Div(flow_rate_m3_hr, D(3600, 0)),
     density        |-> IF Gt(fluid_density_kg_m3, Zero)
                        THEN fluid_density_kg_m3 ELSE FromInt(1),
     viscosity_Pa_s |-> Div(fluid_viscosity_cP, D(1000, 0))]

(***************************************************************************)
(* The flow-quantity primitives; self is the record of instance fields.    *)
(***************************************************************************)
CalculateVelocity(self, pipe_dia_mm) ==
    LET pipe_dia_m == Div(pipe_dia_mm, D(1000, 0))
    IN IF Eq(pipe_dia_m, Zero) THEN Zero
       ELSE LET area == Div(Mul(PI, Sq(pipe_dia_m)), D(4, 0))
            IN Div(self.flow_rate_m3_s, area)

CalculateReynolds(self, velocity, pipe_dia_mm) ==
    LET pipe_dia_m == Div(pipe_dia_mm, D(1000, 0))
    IN IF Eq(self.viscosity_Pa_s, Zero) THEN Inf
       ELSE Div(Mul(Mul(self.density, velocity), pipe_dia_m), self.viscosity_Pa_s)

CalculateFrictionFactor(reynolds, pipe_dia_mm, pipe_material) ==
    IF Lt(reynolds, D(2300, 0))
    THEN (IF Gt(reynolds, Zero) THEN Div(D(64, 0), reynolds) ELSE Zero)
    ELSE LET pipe_dia_m == Div(pipe_dia_mm, D(1000, 0))
             epsilon    == RoughnessGet(pipe_material)
         IN IF Eq(pipe_dia_m, Zero) THEN Zero
            ELSE LET term1 == Div(epsilon, Mul(D(37, -1), pipe_dia_m))
                     term2 == Div(D(574, -2), Pow09(reynolds))
                 IN The({IF IsRaise(arg) THEN arg
                         ELSE IF Le(arg, Zero) THEN Zero
                         ELSE Div(D(25, -2), Sq(Log10(arg)))
                         : arg \in {Add(term1, term2)}})

\* sum(self.FITTINGS_K_VALUES[key] * count for key, count in fittings.items()
\*     if count > 0); fittings is the dict as its sequence of <<key, count>>.
RECURSIVE SumK(_, _)
SumK(fittings, n) ==
    IF n = 0 THEN Zero
    ELSE LET key   == fittings[n][1]
             count == fittings[n][2]
         IN IF count > 0
            THEN Add(SumK(fittings, n - 1), Mul(PumpSizer.FITTINGS_K_VALUES[key], FromInt(count)))
            ELSE SumK(fittings, n - 1)

TotalK(fittings) == SumK(fittings, Len(fittings))

\* The first exception among the values computed in order, or "none".
RECURSIVE FirstRaise(_)
FirstRaise(vals) ==
    IF vals = <<>> THEN "none"
    ELSE IF IsRaise(Head(vals)) THEN Head(vals).k
    ELSE FirstRaise(Tail(vals))

\* Update as a rebinding of self.results to the new fields alone.
UpdateRebind(old, new) == new

\* dict.update: the keys of new replace or extend those of old.
Update(old, new) ==
    [key \in DOMAIN old \cup DOMAIN new |->
        IF key \in DOMAIN new THEN new[key] ELSE old[key]]


(***************************************************************************)
(* The three operations, as functions of the instance fields, the results  *)
(* record before the call and the arguments: [raised, ret, results,        *)
(* locals].  A call that raises returns nothing and leaves results as it   *)
(* was: every exception here is raised before the update.                  *)
(***************************************************************************)
Outcome(old, raised, ret, new, locals) ==
    IF raised # "none"
    THEN [raised |-> raised, ret |-> Raise(raised), results |-> old, locals |-> locals]
    ELSE [raised |-> "none", ret |-> ret, results |-> new, locals |-> locals]

\* v ** 2 / (2 * self.GRAVITY)
VelocityHead(velocity) == Div(Sq(velocity), Mul(FromInt(2), GRAVITY))

TdhKeys ==
    {"tdh_m", "static_head_m", "pressure_head_m", "friction_head_m",
     "velocity_m_s", "reynolds_number"}

PowerKeys ==
    {"hydraulic_power_kW", "brake_horsepower_kW", "motor_power_required_kW",
     "recommended_motor_kW"}

NpshaKeys == {"npsha_m"}

\* TdhDiameter reading the suction diameter.
TdhDiameterSuction(a) == a.suction_pipe_dia_mm

\* The diameter calculate_tdh passes to the primitives and to the pipe term.
TdhDiameter(a) == a.discharge_pipe_dia_mm

\* f * (L / d) * (v ** 2 / (2 * g)) if d > 0 else 0, with d in mm.
PipeHeadLoss(friction_factor, length_m, pipe_dia_mm, velocity) ==
    LET pipe_dia_m == Div(pipe_dia_mm, D(1000, 0))
    IN IF Gt(pipe_dia_m, Zero)
       THEN Mul(Mul(friction_factor, Div(length_m, pipe_dia_m)), VelocityHead(velocity))
       ELSE Zero

\* velocity, Reynolds number, friction factor, pipe loss and fittings loss of
\* one pipe segment, in the order the source computes them; an exception
\* ends the computation, and the later values carry it.
SegmentLosses(self, pipe_dia_mm, length_m, pipe_material, fittings) ==
    The({The({The({The({The({
        [velocity |-> velocity, reynolds |-> reynolds,
         friction_factor |-> friction_factor, pipe_head_loss |-> pipe_head_loss,
         fittings_head_loss |-> fittings_head_loss]
        : fittings_head_loss \in
            {IF IsRaise(pipe_head_loss) THEN pipe_head_loss
             ELSE Mul(TotalK(fittings), VelocityHead(velocity))}})
        : pipe_head_loss \in
            {IF IsRaise(friction_factor) THEN friction_factor
             ELSE PipeHeadLoss(friction_factor, length_m, pipe_dia_mm, velocity)}})
        : friction_factor \in
            {IF IsRaise(reynolds) THEN reynolds
             ELSE CalculateFrictionFactor(reynolds, pipe_dia_mm, pipe_material)}})
        : reynolds \in
            {IF IsRaise(velocity) THEN velocity
             ELSE CalculateReynolds(self, velocity, pipe_dia_mm)}})
        : velocity \in {CalculateVelocity(self, pipe_dia_mm)}})

CalculateTdh(self, old, a) ==
    The({The({The({The({
        Outcome(old,
                FirstRaise(<<pressure_head, seg.velocity, seg.reynolds, seg.friction_factor,
                             seg.pipe_head_loss, seg.fittings_head_loss, tdh>>),
                tdh,
                Update(old,
                       [tdh_m |-> tdh, static_head_m |-> a.elevation_change_m,
                        pressure_head_m |-> pressure_head,
                        friction_head_m |-> friction_head,
                        velocity_m_s |-> seg.velocity, reynolds_number |-> seg.reynolds]),
                seg)
        : tdh \in {Add(Add(a.elevation_change_m, pressure_head), friction_head)}})
        : friction_head \in {Add(seg.pipe_head_loss, seg.fittings_head_loss)}})
        : seg \in {SegmentLosses(self, TdhDiameter(a), a.total_pipe_length_m,
                                 a.pipe_material, a.fittings)}})
        : pressure_head \in
            {Div(Mul(Sub(a.dest_pressure_kpa_g, a.source_pressure_kpa_g), D(1000, 0)),
                 Mul(self.density, GRAVITY))}})

\* RecommendedMotor with the comparison size > motor_power_kW.
RecommendedMotorStrict(motor_power_kW) ==
    LET sizes == PumpSizer.STANDARD_MOTOR_KW
        fits  == {i \in DOMAIN sizes : Gt(sizes[i], motor_power_kW)}
    IN IF fits = {} THEN sizes[Len(sizes)]
       ELSE sizes[CHOOSE i \in fits : \A j \in fits : i <= j]

\* next((size for size in self.STANDARD_MOTOR_KW if size >= motor_power_kW),
\*      self.STANDARD_MOTOR_KW[-1])
RecommendedMotor(motor_power_kW) ==
    LET sizes == PumpSizer.STANDARD_MOTOR_KW
        fits  == {i \in DOMAIN sizes : Ge(sizes[i], motor_power_kW)}
    IN IF fits = {} THEN sizes[Len(sizes)]
       ELSE sizes[CHOOSE i \in fits : \A j \in fits : i <= j]

\* InvalidEfficiencyPower as 0 instead of float('inf').
InvalidEfficiencyZero == Zero

\* float('inf') of the two efficiency guards.
InvalidEfficiencyPower == Inf

\* The value stored under 'hydraulic_power_kW'.
HydraulicPowerField(motor_power_W, motor_efficiency) ==
    IF Gt(motor_efficiency, Zero)
    THEN Div(Div(motor_power_W, D(1000, 0)), motor_efficiency)
    ELSE Inf

\* PowerHead reading the head calculate_tdh stored, when there is one.
PowerHeadStored(old, a) ==
    IF "tdh_m" \in DOMAIN old THEN old.tdh_m ELSE a.tdh_m

\* The head calculate_power computes the hydraulic power of: its argument;
\* old is the results record at the call, which the source does not read.
PowerHead(old, a) == a.tdh_m

CalculatePower(self, old, a) ==
    The({The({The({The({The({
        Outcome(old, FirstRaise(<<hydraulic_power_W, bhp_W, motor_power_W>>), new, new,
                [hydraulic_power_W |-> hydraulic_power_W])
        : new \in
            {Update(old,
               [hydraulic_power_kW |-> HydraulicPowerField(motor_power_W, a.motor_efficiency),
                brake_horsepower_kW |-> Div(bhp_W, D(1000, 0)),
                motor_power_required_kW |-> motor_power_kW,
                recommended_motor_kW |-> RecommendedMotor(motor_power_kW)])}})
        : motor_power_kW \in {Div(motor_power_W, D(1000, 0))}})
        : motor_power_W \in
            {IF Gt(a.motor_efficiency, Zero) THEN Div(bhp_W, a.motor_efficiency)
             ELSE InvalidEfficiencyPower}})
        : bhp_W \in
            {IF Gt(a.pump_efficiency, Zero) THEN Div(hydraulic_power_W, a.pump_efficiency)
             ELSE InvalidEfficiencyPower}})
        : hydraulic_power_W \in
            {Mul(Mul(Mul(self.flow_rate_m3_s, self.density), GRAVITY), PowerHead(old, a))}})

\* NpshaSegment with the fittings loss taken at the discharge velocity that
\* calculate_tdh stored, when there is one.
NpshaSegmentStored(self, old, a) ==
    LET seg == SegmentLosses(self, a.suction_pipe_dia_mm, a.suction_pipe_length_m,
                             a.suction_pipe_material, a.suction_fittings)
    IN IF "velocity_m_s" \in DOMAIN old /\ ~IsRaise(seg.fittings_head_loss)
       THEN [seg EXCEPT !.fittings_head_loss =
                Mul(TotalK(a.suction_fittings), VelocityHead(old.velocity_m_s))]
       ELSE seg

\* The segment calculate_npsha computes its friction terms on; old is the
\* results record at the call, which the source does not read.
NpshaSegment(self, old, a) ==
    SegmentLosses(self, a.suction_pipe_dia_mm, a.suction_pipe_length_m,
                  a.suction_pipe_material, a.suction_fittings)

CalculateNpsha(self, old, a) ==
    The({The({The({The({
        Outcome(old,
                FirstRaise(<<pressure_head_at_source, vapor_pressure_head, seg.velocity,
                             seg.reynolds, seg.friction_factor, seg.pipe_head_loss,
                             seg.fittings_head_loss, npsha>>),
                npsha, Update(old, [npsha_m |-> npsha]), seg)
        : npsha \in
            {Sub(Sub(Add(pressure_head_at_source, a.liquid_level_above_suction_m),
                     vapor_pressure_head),
                 Add(seg.pipe_head_loss, seg.fittings_head_loss))}})
        : seg \in {NpshaSegment(self, old, a)}})
        : vapor_pressure_head \in
            {Div(Mul(a.liquid_vapor_pressure_kpa_abs, D(1000, 0)), Mul(self.density, GRAVITY))}})
        : pressure_head_at_source \in
            {Div(Add(Mul(a.suction_vessel_pressure_kpa_g, D(1000, 0)), D(101325, 0)),
                 Mul(self.density, GRAVITY))}})

(***************************************************************************)
(* State.  Each variable is a function of the live PumpSizer instances.    *)
(* flow_rate_m3_s, density, viscosity_Pa_s and results are the instance's  *)
(* fields.  last records the most recent call on the instance (operation,  *)
(* arguments, exception raised or "none", value returned, locals); called  *)
(* is the set of operations invoked on it so far; constructed is the       *)
(* arguments its constructor was given.  PumpSizer, declared above, is the *)
(* class object.                                                           *)
(***************************************************************************)
VARIABLES flow_rate_m3_s, density, viscosity_Pa_s, results, last, called, constructed

vars ==
    <<PumpSizer, flow_rate_m3_s, density, viscosity_Pa_s, results, last, called,
      constructed>>

fields == <<flow_rate_m3_s, density, viscosity_Pa_s>>

Self(i) ==
    [flow_rate_m3_s |-> flow_rate_m3_s[i], density |-> density[i],
     viscosity_Pa_s |-> viscosity_Pa_s[i]]

Instances == DOMAIN results

EmptyDict == [key \in {} |-> Zero]

(***************************************************************************)
(* Inputs.                                                                 *)
(***************************************************************************)
Fluid(q, rho, mu) ==
    [flow_rate_m3_hr |-> q, fluid_density_kg_m3 |-> rho, fluid_viscosity_cP |-> mu]

Water == Fluid(D(36, 0), D(1000, 0), D(1, 0))

ScenarioFluid == Fluid(D(50, 0), D(9982, -1), D(1, 0))

Inviscid == Fluid(D(36, 0), D(1000, 0), Zero)

Syrup == Fluid(D(36, 0), D(1000, 0), D(1000, 0))

NoDensity == Fluid(D(36, 0), Zero, D(1, 0))

Fluids == {Water, ScenarioFluid, Inviscid, Syrup, NoDensity}

Counts(e90, e90l, e45, gate, ball, globe, check, teet, teeb, entr, exit) ==
    << <<"elbow_90_std", e90>>, <<"elbow_90_long_radius", e90l>>,
       <<"elbow_45_std", e45>>, <<"gate_valve_fully_open", gate>>,
       <<"ball_valve_fully_open", ball>>, <<"globe_valve_fully_open", globe>>,
       <<"check_valve_swing", check>>, <<"tee_through_flow", teet>>,
       <<"tee_branch_flow", teeb>>, <<"pipe_entrance_sharp", entr>>,
       <<"pipe_exit_sharp", exit>> >>

NoFittings == Counts(0, 0, 0, 0, 0, 0, 0, 0, 0, 0, 0)

ScenarioFittings == Counts(0, 5, 0, 2, 0, 0, 0, 0, 0, 1, 1)

SuctionFittings == Counts(1, 0, 0, 0, 0, 0, -1, 0, 0, 1, 0)

\* Diameters in mm: two ordinary ones, zero, a negative one, and the one at
\* which stainless steel's roughness makes the Swamee-Jain argument 1 when
\* the Reynolds number is infinite.
Diameters == {D(75, 0), Zero, D(-75, 0), D(5405, -7)}

TdhArg(sd, dd, len, mat, fit, elev, src, dest) ==
    [suction_pipe_dia_mm |-> sd, discharge_pipe_dia_mm |-> dd,
     total_pipe_length_m |-> len, pipe_material |-> mat, fittings |-> fit,
     elevation_change_m |-> elev, source_pressure_kpa_g |-> src,
     dest_pressure_kpa_g |-> dest]

TdhArgs ==
    {TdhArg(sd, dd, D(120, 0), "stainless_steel", ScenarioFittings, D(15, 0), Zero, D(250, 0)) :
        sd \in {D(100, 0), D(50, 0)}, dd \in Diameters}
    \cup {TdhArg(D(100, 0), D(75, 0), D(60, 0), "unknown_material", NoFittings,
                 D(-5, 0), D(20, 0), D(100, 0))}

PowerArg(tdh, pe, me) ==
    [tdh_m |-> tdh, pump_efficiency |-> pe, motor_efficiency |-> me]

\* The caller passes the head calculate_tdh stored; 50 m before there is one.
PowerArgs(i) ==
    {PowerArg(IF "tdh_m" \in DOMAIN results[i] THEN results[i].tdh_m ELSE D(50, 0),
              pe, D(9, -1)) : pe \in {D(75, -2), Zero}}

NpshaArg(sd, len, mat, fit, level, vessel, vapor) ==
    [suction_pipe_dia_mm |-> sd, suction_pipe_length_m |-> len,
     suction_pipe_material |-> mat, suction_fittings |-> fit,
     liquid_level_above_suction_m |-> level,
     suction_vessel_pressure_kpa_g |-> vessel,
     liquid_vapor_pressure_kpa_abs |-> vapor]

NpshaArgs ==
    {NpshaArg(sd, D(10, 0), "stainless_steel", SuctionFittings, D(2, 0), Zero, D(234, -2)) :
        sd \in {D(100, 0), Zero, D(5405, -7)}}

(***************************************************************************)
(* Construction and the calls.                                             *)
(***************************************************************************)
Construct(ids, fl) ==
    LET new == PumpSizerNew(fl.flow_rate_m3_hr, fl.fluid_density_kg_m3, fl.fluid_viscosity_cP)
    IN /\ PumpSizer = ClassBody
       /\ flow_rate_m3_s = [i \in ids |-> new.flow_rate_m3_s]
       /\ density = [i \in ids |-> new.density]
       /\ viscosity_Pa_s = [i \in ids |-> new.viscosity_Pa_s]
       /\ results = [i \in ids |-> EmptyDict]
       /\ last = [i \in ids |-> [op |-> "__init__", args |-> fl, raised |-> "none",
                                 ret |-> <<>>, locals |-> <<>>]]
       /\ called = [i \in ids |-> {}]
       /\ constructed = [i \in ids |-> fl]

Call(i, op, a, out) ==
    /\ results' = [results EXCEPT ![i] = out.results]
    /\ last' = [last EXCEPT ![i] = [op |-> op, args |-> a, raised |-> out.raised,
                                    ret |-> out.ret, locals |-> out.locals]]
    /\ called' = [called EXCEPT ![i] = @ \cup {op}]
    /\ UNCHANGED <<PumpSizer, fields, constructed>>

calculate_tdh(i, a) ==
    \E out \in {CalculateTdh(Self(i), results[i], a)} : Call(i, "calculate_tdh", a, out)

calculate_power(i, a) ==
    \E out \in {CalculatePower(Self(i), results[i], a)} : Call(i, "calculate_power", a, out)

calculate_npsha(i, a) ==
    \E out \in {CalculateNpsha(Self(i), results[i], a)} : Call(i, "calculate_npsha", a, out)

\* A direct call of a primitive: it returns a value and stores nothing.
Primitive(i, op, a, ret) ==
    /\ last' = [last EXCEPT ![i] = [op |-> op, args |-> a,
                                    raised |-> IF IsRaise(ret) THEN ret.k ELSE "none",
                                    ret |-> ret, locals |-> <<>>]]
    /\ called' = [called EXCEPT ![i] = @ \cup {op}]
    /\ UNCHANGED <<PumpSizer, fields, results, constructed>>

calculate_velocity(i, d) ==
    \E ret \in {CalculateVelocity(Self(i), d)} :
        Primitive(i, "_calculate_velocity", [pipe_dia_mm |-> d], ret)

calculate_reynolds(i, v, d) ==
    \E ret \in {CalculateReynolds(Self(i), v, d)} :
        Primitive(i, "_calculate_reynolds", [velocity |-> v, pipe_dia_mm |-> d], ret)

calculate_friction_factor(i, re, d, mat) ==
    \E ret \in {CalculateFrictionFactor(re, d, mat)} :
        Primitive(i, "_calculate_friction_factor",
                  [reynolds |-> re, pipe_dia_mm |-> d, pipe_material |-> mat], ret)

(***************************************************************************)
(* Spec: one instance, used as the form uses it, in any order and any      *)
(* number of times.                                                        *)
(***************************************************************************)
Init == \E fl \in Fluids : Construct({1}, fl)

Tdh == \E i \in Instances, a \in TdhArgs : calculate_tdh(i, a)

Power == \E i \in Instances : \E a \in PowerArgs(i) : calculate_power(i, a)

Npsha == \E i \in Instances, a \in NpshaArgs : calculate_npsha(i, a)

Next == Tdh \/ Power \/ Npsha

Spec == Init /\ [][Next]_vars

(***************************************************************************)
(* PowerSpec: calculate_power on one instance, over heads and efficiencies *)
(* that reach every branch of the motor selection and of the efficiency    *)
(* guards.                                                                 *)
(***************************************************************************)
Heads == {D(50, 0), D(30, 0), D(10000, 0), D(-5, 0), Zero}

PumpEfficiencies == {D(981, -3), D(75, -2), D(1, 0), Zero, D(-5, -1)}

MotorEfficiencies == {D(1, 0), D(9, -1), Zero, D(-1, 0)}

AllPowerArgs ==
    {PowerArg(h, pe, me) : h \in Heads, pe \in PumpEfficiencies, me \in MotorEfficiencies}

PowerAny == \E i \in Instances, a \in AllPowerArgs : calculate_power(i, a)

PowerSpec == Init /\ [][PowerAny]_vars

(***************************************************************************)
(* PrimSpec: the flow-quantity primitives called directly.                 *)
(***************************************************************************)
Reynolds ==
    {D(-100, 0), Zero, D(1000, 0), D(22999, -1), D(2300, 0), D(1, 5), Inf}

Materials == {"stainless_steel", "cast_iron", "unknown_material"}

Velocities == {Zero, D(2263, -3)}

Velocity == \E i \in Instances, d \in Diameters : calculate_velocity(i, d)

ReynoldsNumber ==
    \E i \in Instances, v \in Velocities, d \in Diameters : calculate_reynolds(i, v, d)

FrictionFactor ==
    \E i \in Instances, re \in Reynolds, d \in Diameters, mat \in Materials :
        calculate_friction_factor(i, re, d, mat)

PrimNext == Velocity \/ ReynoldsNumber \/ FrictionFactor

PrimSpec == Init /\ [][PrimNext]_vars

(***************************************************************************)
(* PairSpec: two instances constructed with the same fluid arguments, each *)
(* with its own history of calls.                                          *)
(***************************************************************************)
PairFluids == {Water, Syrup}

PairTdhArgs ==
    {TdhArg(D(100, 0), D(75, 0), D(120, 0), "stainless_steel", ScenarioFittings,
            D(15, 0), Zero, D(250, 0)),
     TdhArg(D(100, 0), D(50, 0), D(60, 0), "stainless_steel", NoFittings,
            D(5, 0), Zero, D(100, 0))}

PairPowerArgs == {PowerArg(D(50, 0), D(75, -2), D(9, -1))}

PairNpshaArgs ==
    {NpshaArg(sd, D(10, 0), "stainless_steel", SuctionFittings, D(2, 0), Zero, D(234, -2)) :
        sd \in {D(100, 0), D(50, 0)}}

PairInit == \E fl \in PairFluids : Construct({1, 2}, fl)

PairTdh == \E i \in Instances, a \in PairTdhArgs : calculate_tdh(i, a)

PairPower == \E i \in Instances, a \in PairPowerArgs : calculate_power(i, a)

PairNpsha == \E i \in Instances, a \in PairNpshaArgs : calculate_npsha(i, a)

PairNext == PairTdh \/ PairPower \/ PairNpsha

PairSpec == PairInit /\ [][PairNext]_vars


(***************************************************************************)
(* The claims.                                                             *)
(***************************************************************************)
Returned(i, op) == last[i].op = op /\ last[i].raised = "none"

LargestMotor == STANDARD_MOTOR_KW[Len(STANDARD_MOTOR_KW)]

\* C1: after calculate_power, recommended_motor_kW is the first entry of
\* STANDARD_MOTOR_KW, in ascending order, that is >= motor_power_required_kW,
\* and the largest entry, 250, when no entry is; a demand of 5.0 kW yields 5.5,
\* a demand above 250 kW yields 250; it is always an entry of the table.
C1_MotorSelection ==
    \A i \in Instances :
        last[i].op = "calculate_power" =>
            LET mp   == results[i].motor_power_required_kW
                rec  == results[i].recommended_motor_kW
                fits == {n \in DOMAIN STANDARD_MOTOR_KW : Ge(STANDARD_MOTOR_KW[n], mp)}
            IN /\ \E n \in DOMAIN STANDARD_MOTOR_KW : rec = STANDARD_MOTOR_KW[n]
               /\ fits # {} =>
                    \E n \in fits : /\ rec = STANDARD_MOTOR_KW[n]
                                    /\ \A j \in 1..(n - 1) : j \notin fits
               /\ fits = {} => rec = D(250, 0) /\ rec = LargestMotor
               /\ mp = D(5, 0) => rec = D(55, -1)
               /\ Gt(mp, D(250, 0)) => rec = D(250, 0)

\* C1 witness: a demand of exactly 5.0 kW was rounded up to the 5.5 kW motor.
C1_Witness ==
    \E i \in Instances :
        /\ Returned(i, "calculate_power")
        /\ results[i].motor_power_required_kW = D(5, 0)
        /\ results[i].recommended_motor_kW = D(55, -1)

\* C2: a calculate_power call with pump_efficiency <= 0 or motor_efficiency
\* <= 0 (either or both, any head) does not raise and stores
\* motor_power_required_kW = +infinity and recommended_motor_kW = 250.
C2_InvalidEfficiency ==
    \A i \in Instances :
        (/\ last[i].op = "calculate_power"
         /\ \/ Le(last[i].args.pump_efficiency, Zero)
            \/ Le(last[i].args.motor_efficiency, Zero))
        => /\ last[i].raised = "none"
           /\ results[i].motor_power_required_kW = Inf
           /\ results[i].recommended_motor_kW = D(250, 0)

\* C2 witness: a call with a negative pump efficiency and a valid motor
\* efficiency returned, with infinite power and the 250 kW motor.
C2_Witness ==
    \E i \in Instances :
        /\ Returned(i, "calculate_power")
        /\ Lt(last[i].args.pump_efficiency, Zero)
        /\ Gt(last[i].args.motor_efficiency, Zero)
        /\ results[i].motor_power_required_kW = Inf
        /\ results[i].recommended_motor_kW = D(250, 0)

\* C3: after calculate_power with both efficiencies in (0, 1],
\* hydraulic_power_kW is Q*rho*g*tdh_m/1000, brake_horsepower_kW is that
\* power over pump_efficiency, motor_power_required_kW is the brake power
\* over motor_efficiency, and for tdh_m >= 0 the three are in ascending order.
C3_PowerChain ==
    \A i \in Instances :
        (/\ last[i].op = "calculate_power"
         /\ Gt(last[i].args.pump_efficiency, Zero)
         /\ Le(last[i].args.pump_efficiency, D(1, 0))
         /\ Gt(last[i].args.motor_efficiency, Zero)
         /\ Le(last[i].args.motor_efficiency, D(1, 0)))
        => LET a     == last[i].args
               hyd_W == Mul(Mul(Mul(flow_rate_m3_s[i], density[i]), GRAVITY), a.tdh_m)
               bhp_W == Div(hyd_W, a.pump_efficiency)
           IN /\ results[i].hydraulic_power_kW = Div(hyd_W, D(1000, 0))
              /\ results[i].brake_horsepower_kW = Div(bhp_W, D(1000, 0))
              /\ results[i].motor_power_required_kW =
                    Div(Div(bhp_W, a.motor_efficiency), D(1000, 0))
              /\ Ge(a.tdh_m, Zero) =>
                    /\ Le(results[i].hydraulic_power_kW, results[i].brake_horsepower_kW)
                    /\ Le(results[i].brake_horsepower_kW, results[i].motor_power_required_kW)

\* The diameter of the segment the last call computed its losses on.
SegmentDiameter(i) ==
    IF last[i].op = "calculate_tdh" THEN last[i].args.discharge_pipe_dia_mm
    ELSE last[i].args.suction_pipe_dia_mm

\* C4: for every pipe diameter <= 0 (zero or negative), calculate_tdh and
\* calculate_npsha do not raise, the velocity _calculate_velocity returned to
\* them is 0 and their pipe_head_loss term is 0.
C4_NonPositiveDiameter ==
    \A i \in Instances :
        (/\ last[i].op \in {"calculate_tdh", "calculate_npsha"}
         /\ Le(SegmentDiameter(i), Zero))
        => /\ last[i].raised = "none"
           /\ last[i].locals.velocity = Zero
           /\ last[i].locals.pipe_head_loss = Zero

\* C5: _calculate_friction_factor(reynolds, diameter, material) returns 64/Re
\* for 0 < Re < 2300 and 0 for Re <= 0, and for Re >= 2300 it returns 0,
\* without raising, whenever diameter <= 0 or the Swamee-Jain argument
\* eps/(3.7*d) + 5.74/Re^0.9 is <= 0.
C5_FrictionFactorContract ==
    \A i \in Instances :
        last[i].op = "_calculate_friction_factor" =>
            LET re  == last[i].args.reynolds
                d   == last[i].args.pipe_dia_mm
                arg == Add(Div(RoughnessGet(last[i].args.pipe_material),
                               Mul(D(37, -1), Div(d, D(1000, 0)))),
                           Div(D(574, -2), Pow09(re)))
            IN /\ Lt(re, D(2300, 0)) =>
                    /\ last[i].raised = "none"
                    /\ last[i].ret = IF Gt(re, Zero) THEN Div(D(64, 0), re) ELSE Zero
               /\ (Ge(re, D(2300, 0)) /\ (Le(d, Zero) \/ Le(arg, Zero))) =>
                    /\ last[i].raised = "none"
                    /\ last[i].ret = Zero

\* C6: no operation ever raises: every call of calculate_tdh, calculate_power
\* and calculate_npsha, whatever its inputs, returns a value.
C6_NeverRaises ==
    \A i \in Instances : last[i].raised = "none"

\* C7: for a fixed fluid and fixed suction-side arguments, calculate_npsha
\* returns, and stores as npsha_m, the same value whatever calculate_tdh and
\* calculate_power calls came before it, with whatever arguments, or none.
C7_NpshaIndependent ==
    \A i, j \in Instances :
        (/\ Returned(i, "calculate_npsha")
         /\ last[j].op = "calculate_npsha"
         /\ last[i].args = last[j].args)
        => /\ last[j].raised = "none"
           /\ last[i].ret = last[j].ret
           /\ results[i].npsha_m = last[i].ret
           /\ results[j].npsha_m = last[i].ret

\* C7 witness: the same calculate_npsha call returned on an instance that had
\* run calculate_tdh and calculate_power and on one that had run nothing else.
C7_Witness ==
    \E i, j \in Instances :
        /\ Returned(i, "calculate_npsha")
        /\ Returned(j, "calculate_npsha")
        /\ last[i].args = last[j].args
        /\ called[i] = {"calculate_tdh", "calculate_power", "calculate_npsha"}
        /\ called[j] = {"calculate_npsha"}

SuctionDiameters == {D(100, 0), D(50, 0), Zero, D(-75, 0), D(5405, -7)}

\* C8: the stored TDH fields satisfy tdh_m = static_head_m + pressure_head_m
\* + friction_head_m; after a calculate_tdh call that returned, static_head_m
\* is the call's elevation_change_m, and the same call with any other
\* suction_pipe_dia_mm returns the same tdh_m and stores the same six fields.
C8_TdhFromDischarge ==
    \A i \in Instances :
        /\ TdhKeys \subseteq DOMAIN results[i] =>
              results[i].tdh_m =
                  Add(Add(results[i].static_head_m, results[i].pressure_head_m),
                      results[i].friction_head_m)
        /\ Returned(i, "calculate_tdh") =>
              /\ TdhKeys \subseteq DOMAIN results[i]
              /\ results[i].static_head_m = last[i].args.elevation_change_m
              /\ results[i].tdh_m = last[i].ret
              /\ \A sd \in SuctionDiameters :
                    LET other == CalculateTdh(Self(i), EmptyDict,
                                     [last[i].args EXCEPT !.suction_pipe_dia_mm = sd])
                    IN /\ other.raised = "none"
                       /\ other.ret = last[i].ret
                       /\ \A key \in TdhKeys : other.results[key] = results[i][key]

\* C8 witness: a calculate_tdh call with a 50 mm suction and a 75 mm discharge
\* pipe returned, with a positive friction head.
C8_Witness ==
    \E i \in Instances :
        /\ Returned(i, "calculate_tdh")
        /\ last[i].args.suction_pipe_dia_mm = D(50, 0)
        /\ last[i].args.discharge_pipe_dia_mm = D(75, 0)
        /\ Gt(results[i].friction_head_m, Zero)

KeysOf(op) ==
    IF op = "calculate_tdh" THEN TdhKeys
    ELSE IF op = "calculate_power" THEN PowerKeys
    ELSE IF op = "calculate_npsha" THEN NpshaKeys
    ELSE {}

\* C9: in every reachable state the key set of results is the union of the
\* fields of the operations called so far, so it holds all 11 fields exactly
\* when calculate_tdh, calculate_power and calculate_npsha have all been called.
C9_KeysOfCalled ==
    \A i \in Instances :
        /\ DOMAIN results[i] = UNION {KeysOf(op) : op \in called[i]}
        /\ DOMAIN results[i] = TdhKeys \cup PowerKeys \cup NpshaKeys
              <=> called[i] = {"calculate_tdh", "calculate_power", "calculate_npsha"}

\* C10, as claimed: on two instances constructed with the same fluid
\* arguments, whatever their histories, the same operation with the same
\* arguments returns the same value.
C10_SameReturn ==
    \A i, j \in Instances :
        (last[i].op = last[j].op /\ last[i].args = last[j].args)
        => last[i].ret = last[j].ret

\* C10, amended: on two instances constructed with the same fluid arguments,
\* whatever their histories, the same operation with the same arguments raises
\* on both or on neither; calculate_tdh and calculate_npsha return the same
\* value; calculate_power returns the instance's own results record, which
\* agrees on the four power fields; and flow_rate_m3_s, density and
\* viscosity_Pa_s stay what the constructor made them.
C10_Amended ==
    \A i, j \in Instances :
        /\ (last[i].op = last[j].op /\ last[i].args = last[j].args) =>
              /\ last[i].raised = last[j].raised
              /\ last[i].op # "calculate_power" => last[i].ret = last[j].ret
              /\ Returned(i, "calculate_power") =>
                    /\ last[i].ret = results[i]
                    /\ \A key \in PowerKeys : last[i].ret[key] = last[j].ret[key]
        /\ Self(i) = PumpSizerNew(constructed[i].flow_rate_m3_hr,
                                  constructed[i].fluid_density_kg_m3,
                                  constructed[i].fluid_viscosity_cP)

\* C10 witness: the same calculate_power call returned different records on
\* the two instances, one of which had run calculate_tdh before.
C10_Witness ==
    \E i, j \in Instances :
        /\ Returned(i, "calculate_power")
        /\ Returned(j, "calculate_power")
        /\ last[i].args = last[j].args
        /\ "tdh_m" \in DOMAIN results[i]
        /\ last[i].ret # last[j].ret

\* The result fields an operation writes.
OwnKeys(op) ==
    CASE op = "calculate_tdh"   -> TdhKeys
      [] op = "calculate_power" -> PowerKeys
      [] op = "calculate_npsha" -> NpshaKeys
      [] OTHER                  -> {}

\* The part of a results record outside a set of keys.
Outside(dict, keys) == [key \in DOMAIN dict \ keys |-> dict[key]]

\* C11: in every step of any sequence of calls on an instance, the call
\* changes only the result fields of the operation called: calculate_tdh
\* leaves the four power fields and npsha_m as they were (present or absent,
\* and with the same value), calculate_power leaves the six TDH fields and
\* npsha_m, calculate_npsha leaves everything but npsha_m; an instance that
\* was not called keeps its whole results record; and no call changes
\* flow_rate_m3_s, density or viscosity_Pa_s of the instance or the class
\* tables PIPE_ROUGHNESS, FITTINGS_K_VALUES and STANDARD_MOTOR_KW.
C11_Frame ==
    [][/\ PumpSizer' = PumpSizer
       /\ PumpSizer' = ClassBody
       /\ \A i \in Instances :
            /\ flow_rate_m3_s'[i] = flow_rate_m3_s[i]
            /\ density'[i] = density[i]
            /\ viscosity_Pa_s'[i] = viscosity_Pa_s[i]
            /\ IF called'[i] = called[i] /\ last'[i] = last[i]
               THEN results'[i] = results[i]
               ELSE /\ last'[i].op \in {"calculate_tdh", "calculate_power", "calculate_npsha"}
                    /\ Outside(results'[i], OwnKeys(last'[i].op))
                         = Outside(results[i], OwnKeys(last'[i].op))]_vars

\* calculate_tdh has returned on an instance that holds all eleven fields,
\* with a head other than the one its stored power fields were computed
\* from: the call rewrote the TDH fields and the power fields and npsha_m
\* are those of earlier calls.
C11_Witness ==
    \E i \in Instances :
        /\ Returned(i, "calculate_tdh")
        /\ DOMAIN results[i] = TdhKeys \cup PowerKeys \cup NpshaKeys
        /\ IsFin(results[i].brake_horsepower_kW)
        /\ \A pe \in {D(75, -2), Zero} :
              CalculatePower(Self(i), EmptyDict,
                             PowerArg(results[i].tdh_m, pe, D(9, -1))).results.brake_horsepower_kW
                # results[i].brake_horsepower_kW
        /\ CalculatePower(Self(i), EmptyDict,
                          PowerArg(D(50, 0), D(75, -2), D(9, -1))).results.brake_horsepower_kW
             # results[i].brake_horsepower_kW

====
